---- MODULE Spec2Model ----
(***************************************************************************)
(* Model of .github/scripts/sync_sheets.py: the URL normaliser clean_url,  *)
(* the row classifier process_sheet_data, the CSV fetch fetch_sheet_data   *)
(* and the sequential pipeline main.                                       *)
(*                                                                         *)
(* A Python str is a sequence of one-character strings; None is a value    *)
(* that is no such sequence; a dict is a sequence of [key, val] pairs with *)
(* distinct keys, in insertion order (Python dicts keep insertion order).  *)
(***************************************************************************)
EXTENDS Integers, Sequences, FiniteSets, TLC

VARIABLES
    url_in, url_out, url_again, url_pc,          \* clean_url applied once and twice
    data, result, cls_pc,                        \* process_sheet_data applied to a table
    pc, sheet_names, idx, headings, successful_sheets, log, file, writes, exit_status

url_vars == <<url_in, url_out, url_again, url_pc>>
cls_vars == <<data, result, cls_pc>>
main_vars == <<pc, sheet_names, idx, headings, successful_sheets, log, file, writes, exit_status>>
vars == <<url_vars, cls_vars, main_vars>>

-----------------------------------------------------------------------------
(* Bounds of the model. *)

\* longest clean_url input, counted in pieces of UrlPieces
MaxPieces == 4

\* most rows of a table given to process_sheet_data, header included
MaxRows == 4

\* most sheet names get_sheet_names returns
MaxSheets == 3

-----------------------------------------------------------------------------
(* Python values. *)

\* None: a one-element sequence whose element is not a character, so no str equals it
None == <<"None">>

\* no output file on disk
NoFile == <<>>

\* the process has not exited yet
Running == -1

\* str.strip() with no argument removes leading and trailing whitespace
Whitespace == {" ", "\t", "\n"}

RECURSIVE lstrip(_)
lstrip(s) ==
    IF s # <<>> /\ Head(s) \in Whitespace THEN lstrip(Tail(s)) ELSE s

RECURSIVE rstrip(_)
rstrip(s) ==
    IF s # <<>> /\ s[Len(s)] \in Whitespace THEN rstrip(SubSeq(s, 1, Len(s) - 1)) ELSE s

strip(s) == rstrip(lstrip(s))

\* str.startswith(prefix)
startswith(s, prefix) ==
    Len(s) >= Len(prefix) /\ SubSeq(s, 1, Len(prefix)) = prefix

\* str.endswith(suffix)
endswith(s, suffix) ==
    Len(s) >= Len(suffix) /\ SubSeq(s, Len(s) - Len(suffix) + 1, Len(s)) = suffix

\* the string literals of clean_url
Quote == <<"\"">>
HttpPrefix == <<"h", "t", "t", "p", ":", "/", "/">>
HttpsPrefix == <<"h", "t", "t", "p", "s", ":", "/", "/">>
WwwPrefix == <<"w", "w", "w", ".">>

-----------------------------------------------------------------------------
(* clean_url, lines 294-313. *)

\* lines 301-303: one layer of surrounding quotes; url[1:-1] of a one-character
\* string is the empty string
unquote(url) ==
    IF startswith(url, Quote) /\ endswith(url, Quote)
    THEN SubSeq(url, 2, Len(url) - 1)
    ELSE url

\* as add_scheme, but a www. address is given the http:// scheme
add_scheme_www_http(url) ==
    IF ~(startswith(url, HttpPrefix) \/ startswith(url, HttpsPrefix))
    THEN IF startswith(url, WwwPrefix)
         THEN HttpPrefix \o url
         ELSE HttpsPrefix \o url
    ELSE url

\* lines 305-311
add_scheme(url) ==
    IF ~(startswith(url, HttpPrefix) \/ startswith(url, HttpsPrefix))
    THEN IF startswith(url, WwwPrefix)
         THEN HttpsPrefix \o url
         ELSE HttpsPrefix \o url
    ELSE url

\* as clean_url, but the trim of line 299 is forgotten
clean_url_untrimmed(url) ==
    IF url = None \/ url = <<>> \/ strip(url) = <<>>
    THEN None
    ELSE add_scheme(unquote(url))

clean_url(url) ==
    IF url = None \/ url = <<>> \/ strip(url) = <<>>
    THEN None
    ELSE add_scheme(unquote(strip(url)))

-----------------------------------------------------------------------------
(* Inputs of clean_url: concatenations of at most MaxPieces pieces. *)

UrlPieces == {<<" ">>, Quote, HttpPrefix, HttpsPrefix, WwwPrefix, <<"a">>}

RECURSIVE Concats(_)
Concats(n) ==
    IF n = 0 THEN {<<>>}
    ELSE LET shorter == Concats(n - 1)
         IN  shorter \cup {s \o p : s \in shorter, p \in UrlPieces}

UrlInputs == Concats(MaxPieces)

UrlIdle == url_in = <<>> /\ url_out = None /\ url_again = None /\ url_pc = "idle"

UrlInit == url_in \in UrlInputs /\ url_out = None /\ url_again = None /\ url_pc = "input"

\* url_out = clean_url(url_in)
Normalize ==
    /\ url_pc = "input"
    /\ url_out' = clean_url(url_in)
    /\ url_pc' = "once"
    /\ UNCHANGED <<url_in, url_again, cls_vars, main_vars>>

\* url_again = clean_url(url_out)
Renormalize ==
    /\ url_pc = "once"
    /\ url_again' = clean_url(url_out)
    /\ url_pc' = "twice"
    /\ UNCHANGED <<url_in, url_out, cls_vars, main_vars>>

MainIdle ==
    /\ pc = "idle" /\ sheet_names = <<>> /\ idx = 1 /\ headings = <<>>
    /\ successful_sheets = 0 /\ log = <<>> /\ file = NoFile /\ writes = 0
    /\ exit_status = Running

ClsIdle == data = <<>> /\ result = <<>> /\ cls_pc = "idle"

UrlNext == Normalize \/ Renormalize

InitUrl == UrlInit /\ ClsIdle /\ MainIdle

SpecUrl == InitUrl /\ [][UrlNext]_vars

-----------------------------------------------------------------------------
(* Python dicts, as sequences of [key, val] pairs in insertion order. *)

Keys(d) == [i \in 1..Len(d) |-> d[i].key]

HasKey(d, k) == \E i \in 1..Len(d) : d[i].key = k

GetItem(d, k) == d[CHOOSE i \in 1..Len(d) : d[i].key = k].val

\* d[k] = v: a present key keeps its position, a new key goes last
SetItem(d, k, v) ==
    IF HasKey(d, k)
    THEN [i \in 1..Len(d) |-> IF d[i].key = k THEN [key |-> k, val |-> v] ELSE d[i]]
    ELSE Append(d, [key |-> k, val |-> v])

\* truth value of a str or None
Truthy(v) == v # None /\ v # <<>>

\* truth value of a list or of a dict held as a sequence of pairs
NonEmpty(v) == Len(v) > 0

-----------------------------------------------------------------------------
(* process_sheet_data, lines 315-364. A row is a sequence of cells (column 0 *)
(* is row[1] here); a Section is a function whose domain is the set of its   *)
(* keys, a subset of {"sub_headings", "direct_links"}.                       *)

EmptyDict == <<>>

\* lines 340-342
make_entry(name, url) ==
    IF Truthy(url) THEN [name |-> name, url |-> url] ELSE [name |-> name]

\* as add_entry, but every entry goes to direct_links
add_entry_ungrouped(acc, row, entry) ==
    [acc EXCEPT !.direct_links = Append(@, entry)]

\* lines 344-355: under its sub-heading when column 2 is present and not blank
add_entry(acc, row, entry) ==
    IF Len(row) > 2 /\ Truthy(strip(row[3]))
    THEN LET sub_heading == strip(row[3])
             initialised == IF ~HasKey(acc.sub_headings, sub_heading)
                            THEN SetItem(acc.sub_headings, sub_heading, <<>>)
                            ELSE acc.sub_headings
         IN  [acc EXCEPT !.sub_headings =
                 SetItem(initialised, sub_heading,
                         Append(GetItem(initialised, sub_heading), entry))]
    ELSE [acc EXCEPT !.direct_links = Append(@, entry)]

\* line 327: the row has no columns, or column 0 is blank
skip_row(row) == Len(row) = 0 \/ ~Truthy(strip(row[1]))

\* as classify_row, but the name is taken without strip()
classify_row_unstripped(acc, row) ==
    IF Len(row) = 0 \/ ~Truthy(row[1])
    THEN acc
    ELSE LET name == row[1]
             url == IF Len(row) > 1 /\ Truthy(strip(row[2]))
                    THEN clean_url(row[2])
                    ELSE None
         IN  IF ~Truthy(name)
             THEN acc
             ELSE add_entry(acc, row, make_entry(name, url))

\* lines 326-355, one iteration of the loop over rows
classify_row(acc, row) ==
    IF skip_row(row)
    THEN acc
    ELSE LET name == strip(row[1])
             url == IF Len(row) > 1 /\ Truthy(strip(row[2]))
                    THEN clean_url(row[2])
                    ELSE None
         IN  IF ~Truthy(name)
             THEN acc
             ELSE add_entry(acc, row, make_entry(name, url))

RECURSIVE classify_rows(_, _)
classify_rows(acc, rows) ==
    IF rows = <<>> THEN acc
    ELSE classify_rows(classify_row(acc, Head(rows)), Tail(rows))

\* as build_result, but both keys are always present
build_result_both_keys(acc) ==
    [k \in {"sub_headings", "direct_links"} |-> acc[k]]

\* lines 357-364
build_result(acc) ==
    [k \in (IF NonEmpty(acc.sub_headings) THEN {"sub_headings"} ELSE {}) \cup
           (IF NonEmpty(acc.direct_links) THEN {"direct_links"} ELSE {})
        |-> acc[k]]

\* as rows_of, but the header row is classified like the others
rows_of_with_header(table) == table

\* line 321: data[1:]
rows_of(table) == Tail(table)

process_sheet_data(sheet_name, table) ==
    IF ~NonEmpty(table) \/ Len(table) < 2
    THEN EmptyDict
    ELSE build_result(classify_rows([sub_headings |-> <<>>, direct_links |-> <<>>],
                                    rows_of(table)))

-----------------------------------------------------------------------------
(* Inputs of process_sheet_data: tables of at most MaxRows rows of Rows. *)

NameA == <<"A">>
NameB == <<"B">>
NameC == <<"C">>
GroupG == <<"G">>
Blank == <<" ">>
Empty == <<>>

Rows ==
    {<<n, Empty, g>> : n \in {NameA, NameB, NameC}, g \in {Empty, GroupG}} \cup
    { <<>>,                                          \* a row with no columns
      <<Blank, <<"a">>, GroupG>>,                    \* a blank name
      <<NameA, <<"a">>>>,                            \* a URL and no third column
      <<<<" ", "B", " ">>, Blank, <<" ", "H", " ">>>> } \* padded cells, a blank URL

ClsInit == data = <<>> /\ result = EmptyDict /\ cls_pc = "input"

\* the caller supplies one more row
AddRow ==
    /\ cls_pc = "input"
    /\ Len(data) < MaxRows
    /\ \E row \in Rows : data' = Append(data, row)
    /\ UNCHANGED <<result, cls_pc, url_vars, main_vars>>

\* result = process_sheet_data(sheet_name, data)
Classify ==
    /\ cls_pc = "input"
    /\ result' = process_sheet_data(<<"S">>, data)
    /\ cls_pc' = "done"
    /\ UNCHANGED <<data, url_vars, main_vars>>

ClsNext == AddRow \/ Classify

InitClassify == ClsInit /\ UrlIdle /\ MainIdle

SpecClassify == InitClassify /\ [][ClsNext]_vars

-----------------------------------------------------------------------------
(* fetch_sheet_data, lines 224-292. The HTTP exchange of lines 244-245 is  *)
(* the environment's: it raises, or it yields the text of the response.    *)

Comma == ","
DoubleQuote == "\""
Newline == "\n"
ErrorWord == <<"E", "r", "r", "o", "r">>
InvalidQuery == <<"I", "n", "v", "a", "l", "i", "d", " ", "q", "u", "e", "r", "y">>

\* sub in s
Contains(s, sub) ==
    \E i \in 1..(Len(s) - Len(sub) + 1) : SubSeq(s, i, i + Len(sub) - 1) = sub

\* s.split('\n')
RECURSIVE split_lines(_, _)
split_lines(s, current) ==
    IF s = <<>> THEN <<current>>
    ELSE IF Head(s) = Newline
         THEN <<current>> \o split_lines(Tail(s), <<>>)
         ELSE split_lines(Tail(s), Append(current, Head(s)))

\* lines 258-284: the fields of one line
RECURSIVE parse_line(_, _, _, _, _)
parse_line(line, i, in_quote, current_field, row) ==
    IF i > Len(line)
    THEN Append(row, strip(current_field))
    ELSE IF line[i] = DoubleQuote
         THEN IF in_quote /\ i + 1 <= Len(line) /\ line[i + 1] = DoubleQuote
              THEN parse_line(line, i + 2, in_quote, Append(current_field, DoubleQuote), row)
              ELSE parse_line(line, i + 1, ~in_quote, current_field, row)
         ELSE IF line[i] = Comma /\ ~in_quote
              THEN parse_line(line, i + 1, in_quote, <<>>, Append(row, strip(current_field)))
              ELSE parse_line(line, i + 1, in_quote, Append(current_field, line[i]), row)

\* lines 253-288
parse_csv(text) ==
    LET lines == split_lines(strip(text), <<>>)
    IN  [n \in 1..Len(lines) |-> parse_line(lines[n], 1, FALSE, <<>>, <<>>)]

\* lines 243-292: [] when the request raises or the service answers with an error
fetch_sheet_data(sheet_name, response) ==
    IF response.kind = "raise"
    THEN <<>>
    ELSE IF startswith(strip(response.text), ErrorWord) \/ Contains(response.text, InvalidQuery)
         THEN <<>>
         ELSE parse_csv(response.text)

\* the responses of the spreadsheet service
HeaderLine == <<"N", ",", "U", ",", "G">>

ResponseTexts ==
    { HeaderLine,                                                    \* a header only
      HeaderLine \o <<"\n", "\"", "A", "\"", ",", "a", ",", "G">>,   \* A under G
      HeaderLine \o <<"\n", "B", "\n", ",", "a", ",", "G">>,         \* B direct, a nameless row
      HeaderLine \o <<"\n", " ", ",", "a">>,                         \* a nameless row only
      ErrorWord \o <<" ", "4", "0", "4">>,
      InvalidQuery }

Responses ==
    {[kind |-> "raise"]} \cup {[kind |-> "ok", text |-> t] : t \in ResponseTexts}

-----------------------------------------------------------------------------
(* main, lines 366-458. pc is "start" before get_sheet_names, "loop" while  *)
(* the for loop of line 390 is at sheet_names[idx] (past the end when idx   *)
(* is Len(sheet_names) + 1), "exited" once the process has ended. log holds *)
(* one record for each sheet name the loop has handled.                     *)

SheetX == <<"X">>
SheetY == <<"Y">>

\* what get_sheet_names (lines 16-222) can return: any list of names
RECURSIVE NameLists(_)
NameLists(n) ==
    IF n = 0 THEN {<<>>}
    ELSE LET shorter == NameLists(n - 1)
         IN  shorter \cup {Append(l, name) : l \in shorter, name \in {SheetX, SheetY, Blank}}

SheetLists == NameLists(MaxSheets)

\* line 384, an instant with its Z suffix
Timestamp == <<"t", "Z">>

MainInit ==
    /\ pc = "start" /\ sheet_names = <<>> /\ idx = 1 /\ headings = <<>>
    /\ successful_sheets = 0 /\ log = <<>> /\ file = NoFile /\ writes = 0
    /\ exit_status = Running

\* lines 371-378: no sheet name, exit(1)
DiscoveryFails ==
    /\ pc = "start"
    /\ sheet_names' = <<>>
    /\ pc' = "exited"
    /\ exit_status' = 1
    /\ UNCHANGED <<idx, headings, successful_sheets, log, file, writes, url_vars, cls_vars>>

\* lines 371-389
DiscoverySucceeds ==
    /\ pc = "start"
    /\ \E names \in SheetLists \ {<<>>} : sheet_names' = names
    /\ pc' = "loop"
    /\ idx' = 1
    /\ headings' = <<>>
    /\ successful_sheets' = 0
    /\ UNCHANGED <<log, file, writes, exit_status, url_vars, cls_vars>>

\* lines 391-392
SkipBlankName ==
    /\ pc = "loop"
    /\ idx <= Len(sheet_names)
    /\ ~Truthy(strip(sheet_names[idx]))
    /\ log' = Append(log, [name |-> sheet_names[idx], fetched |-> FALSE,
                           data |-> <<>>, section |-> EmptyDict])
    /\ idx' = idx + 1
    /\ UNCHANGED <<pc, sheet_names, headings, successful_sheets, file, writes, exit_status, url_vars, cls_vars>>

\* as keep_section, but the test of line 402 is forgotten
keep_section_any_data(table, section) == NonEmpty(table)

\* lines 399-402: the Section is kept when rows were fetched and it is not empty
keep_section(table, section) == NonEmpty(table) /\ DOMAIN section # {}

\* as ProcessSheet, but a failed fetch ends the run
ProcessSheetOrAbort ==
    /\ pc = "loop"
    /\ idx <= Len(sheet_names)
    /\ Truthy(strip(sheet_names[idx]))
    /\ \E response \in Responses :
          LET sheet_name == sheet_names[idx]
              table == fetch_sheet_data(sheet_name, response)
              processed_data == IF NonEmpty(table)
                                THEN process_sheet_data(sheet_name, table)
                                ELSE EmptyDict
              kept == keep_section(table, processed_data)
          IN  /\ headings' = IF kept
                             THEN SetItem(headings, sheet_name, processed_data)
                             ELSE headings
              /\ successful_sheets' = IF kept THEN successful_sheets + 1
                                      ELSE successful_sheets
              /\ log' = Append(log, [name |-> sheet_name, fetched |-> TRUE,
                                     data |-> table, section |-> processed_data])
              /\ pc' = IF NonEmpty(table) THEN "loop" ELSE "exited"
              /\ exit_status' = IF NonEmpty(table) THEN exit_status ELSE 1
    /\ idx' = idx + 1
    /\ UNCHANGED <<sheet_names, file, writes, url_vars, cls_vars>>

\* lines 394-421: one sheet fetched and, when rows came back, classified
ProcessSheet ==
    /\ pc = "loop"
    /\ idx <= Len(sheet_names)
    /\ Truthy(strip(sheet_names[idx]))
    /\ \E response \in Responses :
          LET sheet_name == sheet_names[idx]
              table == fetch_sheet_data(sheet_name, response)
              processed_data == IF NonEmpty(table)
                                THEN process_sheet_data(sheet_name, table)
                                ELSE EmptyDict
              kept == keep_section(table, processed_data)
          IN  /\ headings' = IF kept
                             THEN SetItem(headings, sheet_name, processed_data)
                             ELSE headings
              /\ successful_sheets' = IF kept THEN successful_sheets + 1
                                      ELSE successful_sheets
              /\ log' = Append(log, [name |-> sheet_name, fetched |-> TRUE,
                                     data |-> table, section |-> processed_data])
    /\ idx' = idx + 1
    /\ UNCHANGED <<pc, sheet_names, file, writes, exit_status, url_vars, cls_vars>>

\* as loop_finished, but one sheet handled is enough
loop_finished_early(position, names) == position > 1

\* the for loop of line 390 has run over every name
loop_finished(position, names) == position > Len(names)

\* as no_sheets_processed, but the comparison is wrong
no_sheets_processed_never(count) == count < 0

\* line 424
no_sheets_processed(count) == count = 0

\* lines 423-427: after the loop, no sheet gave a Section, exit(1)
FatalNoData ==
    /\ pc = "loop"
    /\ loop_finished(idx, sheet_names)
    /\ no_sheets_processed(successful_sheets)
    /\ pc' = "exited"
    /\ exit_status' = 1
    /\ UNCHANGED <<sheet_names, idx, headings, successful_sheets, log, file, writes, url_vars, cls_vars>>

\* lines 429-458: after the loop, the document is written and main returns
WriteOutput ==
    /\ pc = "loop"
    /\ loop_finished(idx, sheet_names)
    /\ ~no_sheets_processed(successful_sheets)
    /\ file' = [last_updated |-> Timestamp, headings |-> headings]
    /\ writes' = writes + 1
    /\ pc' = "exited"
    /\ exit_status' = 0
    /\ UNCHANGED <<sheet_names, idx, headings, successful_sheets, log, url_vars, cls_vars>>

MainNext ==
    \/ DiscoveryFails
    \/ DiscoverySucceeds
    \/ SkipBlankName
    \/ ProcessSheet
    \/ FatalNoData
    \/ WriteOutput

Init == MainInit /\ UrlIdle /\ ClsIdle

Spec == Init /\ [][MainNext]_vars

-----------------------------------------------------------------------------
(* Properties of clean_url, checked under SpecUrl. *)

\* the trimmed input is wrapped in double quotes (the test of line 302)
Quoted(s) == startswith(strip(s), Quote) /\ endswith(strip(s), Quote)

\* C5, as claimed: whenever clean_url(x) is defined, clean_url(clean_url(x)) equals
\* clean_url(x).
C5_IdempotentEverywhere ==
    (url_pc = "twice" /\ url_out # None) => url_again = url_out

\* C5, amended: whenever clean_url(x) is defined, clean_url(clean_url(x)) is defined
\* and equals clean_url(x) with its trailing whitespace removed; it equals clean_url(x)
\* itself for every x that is not wrapped in double quotes after trimming, so for
\* every x that already starts with http:// or https://.
C5_IdempotentUnlessQuoted ==
    (url_pc = "twice" /\ url_out # None) =>
        /\ url_again # None
        /\ url_again = rstrip(url_out)
        /\ ~Quoted(url_in) => url_again = url_out
        /\ (startswith(url_in, HttpPrefix) \/ startswith(url_in, HttpsPrefix))
               => url_again = url_out

\* an already-prefixed input with surrounding whitespace, normalised twice
C5_Witness ==
    /\ url_pc = "twice"
    /\ url_in = HttpPrefix \o <<"a", " ">>
    /\ url_out = HttpPrefix \o <<"a">>
    /\ url_again = url_out

\* C6: clean_url is the normaliser of the specification: no result for a blank
\* input; otherwise the input trimmed, one layer of surrounding double quotes
\* removed when both ends are quoted, returned unchanged when it starts with
\* http:// or https:// and with https:// prepended otherwise (www. included).
C6_CleanUrlIsNormalizer ==
    url_pc # "input" =>
        LET trimmed == strip(url_in)
            bare == IF Head(trimmed) = "\"" /\ trimmed[Len(trimmed)] = "\""
                    THEN [i \in 1..(IF Len(trimmed) >= 2 THEN Len(trimmed) - 2 ELSE 0)
                              |-> trimmed[i + 1]]
                    ELSE trimmed
        IN  IF \A i \in 1..Len(url_in) : url_in[i] \in Whitespace
            THEN url_out = None
            ELSE IF \/ Len(bare) >= 7 /\ \A i \in 1..7 : bare[i] = HttpPrefix[i]
                    \/ Len(bare) >= 8 /\ \A i \in 1..8 : bare[i] = HttpsPrefix[i]
                 THEN url_out = bare
                 ELSE url_out = HttpsPrefix \o bare

\* a quoted www. address gets the https:// scheme
C6_Witness ==
    /\ url_pc = "once"
    /\ url_in = <<" ">> \o Quote \o WwwPrefix \o Quote
    /\ url_out = HttpsPrefix \o WwwPrefix

-----------------------------------------------------------------------------
(* Properties of process_sheet_data, checked under SpecClassify. They are  *)
(* stated over the rows after the header, data[1:].                         *)

DataRows == IF Len(data) >= 2 THEN Tail(data) ELSE <<>>

\* the row has a name: column 0 is present and not blank after trimming
HasName(row) == Len(row) >= 1 /\ \E i \in 1..Len(row[1]) : row[1][i] \notin Whitespace

\* the sub-heading the row names, <<>> when column 2 is absent or blank
GroupOf(row) == IF Len(row) >= 3 THEN strip(row[3]) ELSE <<>>

\* the names of the rows of DataRows that have a name and name sub-heading g
NamesUnder(g) ==
    LET picked == SelectSeq(DataRows, LAMBDA row : HasName(row) /\ GroupOf(row) = g)
    IN  [i \in 1..Len(picked) |-> strip(picked[i][1])]

NamesOf(entries) == [i \in 1..Len(entries) |-> entries[i].name]

RECURSIVE FirstAppearances(_)
FirstAppearances(seq) ==
    IF seq = <<>> THEN <<>>
    ELSE LET before == FirstAppearances(SubSeq(seq, 1, Len(seq) - 1))
             last == seq[Len(seq)]
         IN  IF \E i \in 1..Len(before) : before[i] = last
             THEN before
             ELSE Append(before, last)

\* the sub-headings named by the rows that have a name, in order of first appearance
GroupsNamed ==
    LET grouped == SelectSeq(DataRows, LAMBDA row : HasName(row) /\ GroupOf(row) # <<>>)
    IN  FirstAppearances([i \in 1..Len(grouped) |-> GroupOf(grouped[i])])

SubHeadingsOf(section) ==
    IF "sub_headings" \in DOMAIN section THEN section.sub_headings ELSE <<>>

DirectLinksOf(section) ==
    IF "direct_links" \in DOMAIN section THEN section.direct_links ELSE <<>>

\* every Entry of the Section, the sub-headings' first
RECURSIVE Flatten(_)
Flatten(d) == IF d = <<>> THEN <<>> ELSE Head(d).val \o Flatten(Tail(d))

EntriesOf(section) == Flatten(SubHeadingsOf(section)) \o DirectLinksOf(section)

\* C7: process_sheet_data groups stably: the sub-heading keys are the sub-headings
\* named by the rows, in order of first appearance; the entries under each
\* sub-heading and the entries of direct_links are in the order of their rows; a
\* row that yields an Entry goes to direct_links exactly when its column 2 is
\* absent or blank after trimming.
C7_StableGrouping ==
    cls_pc = "done" =>
        /\ Keys(SubHeadingsOf(result)) = GroupsNamed
        /\ \A i \in 1..Len(SubHeadingsOf(result)) :
               NamesOf(SubHeadingsOf(result)[i].val)
                   = NamesUnder(SubHeadingsOf(result)[i].key)
        /\ NamesOf(DirectLinksOf(result)) = NamesUnder(<<>>)

\* the rows (A,,G),(B,,G),(C,,) after a header give G: [A, B] and direct_links: [C]
C7_Witness ==
    /\ cls_pc = "done"
    /\ Len(data) = 4
    /\ Tail(data) = << <<NameA, Empty, GroupG>>, <<NameB, Empty, GroupG>>,
                       <<NameC, Empty, Empty>> >>
    /\ result = [sub_headings |-> <<[key |-> GroupG,
                                     val |-> <<[name |-> NameA], [name |-> NameB]>>]>>,
                 direct_links |-> <<[name |-> NameC]>>]

\* C8: a table of fewer than 2 rows gives an empty Section, with neither key; and
\* row 0 never contributes an Entry: the Section has at most one Entry per later
\* row and is the same whatever row 0 holds.
C8_HeaderDiscarded ==
    cls_pc = "done" =>
        /\ Len(data) < 2 => DOMAIN result = {}
        /\ Len(EntriesOf(result)) <= Len(DataRows)
        /\ Len(data) >= 1 =>
               \A header \in Rows :
                   process_sheet_data(<<"S">>, <<header>> \o Tail(data)) = result

\* a table that is only a header row, the row holding a name and a sub-heading
C8_Witness ==
    /\ cls_pc = "done"
    /\ data = << <<NameA, Empty, GroupG>> >>
    /\ DOMAIN result = {}

\* C9: a row whose column 0 is absent or blank after trimming contributes no
\* Entry (the Section has exactly one Entry per other row, and is the same with
\* the nameless rows removed), and every Entry has a non-empty name.
C9_NamelessRowsSkipped ==
    cls_pc = "done" =>
        /\ Len(EntriesOf(result)) = Len(SelectSeq(DataRows, HasName))
        /\ Len(data) >= 2 =>
               process_sheet_data(<<"S">>, <<Head(data)>> \o SelectSeq(DataRows, HasName))
                   = result
        /\ \A i \in 1..Len(EntriesOf(result)) :
               /\ EntriesOf(result)[i].name # <<>>
               /\ \E j \in 1..Len(EntriesOf(result)[i].name) :
                      EntriesOf(result)[i].name[j] \notin Whitespace

\* a blank-named row with a URL and a sub-heading, between two named rows
C9_Witness ==
    /\ cls_pc = "done"
    /\ Len(data) = 4
    /\ data[3] = <<Blank, <<"a">>, GroupG>>
    /\ HasName(data[2]) /\ HasName(data[4])
    /\ Len(EntriesOf(result)) = 2

\* C10: the Section has the key sub_headings only when a sub-heading exists and
\* the key direct_links only when that list is non-empty; every sub-heading key is
\* a non-empty string and every sub-heading holds at least one Entry.
C10_OnlyNonEmptyKeys ==
    cls_pc = "done" =>
        /\ DOMAIN result \subseteq {"sub_headings", "direct_links"}
        /\ "sub_headings" \in DOMAIN result => Len(result.sub_headings) >= 1
        /\ "direct_links" \in DOMAIN result => Len(result.direct_links) >= 1
        /\ \A i \in 1..Len(SubHeadingsOf(result)) :
               /\ SubHeadingsOf(result)[i].key # <<>>
               /\ Len(SubHeadingsOf(result)[i].val) >= 1

\* rows with names and no sub-heading: the Section has direct_links and no sub_headings
C10_Witness ==
    /\ cls_pc = "done"
    /\ Len(data) = 3
    /\ DOMAIN result = {"direct_links"}
    /\ Len(result.direct_links) = 2

-----------------------------------------------------------------------------
(* Properties of main, checked under Spec. *)

\* the loop's records of the sheets that gave a non-empty Section
Yielded(i) == DOMAIN log[i].section # {}

\* a fetch that failed: the request raised or the service answered with an error
FetchFailed(i) == log[i].fetched /\ log[i].data = <<>>

\* the names of the sheets that gave a non-empty Section, each at its first such time
YieldedNames ==
    LET yielded == SelectSeq(log, LAMBDA entry : DOMAIN entry.section # {})
    IN  FirstAppearances([i \in 1..Len(yielded) |-> yielded[i].name])

\* C1: when discovery returns no sheet, or no sheet yields a non-empty Section,
\* the process ends with a non-zero status and the output file is never written;
\* when discovery returns no sheet, no sheet is fetched. A run never stops short
\* of its exit.
C1_FatalWithoutOutput ==
    /\ (pc # "start" /\ sheet_names = <<>>) =>
           /\ pc = "exited" /\ exit_status = 1
           /\ file = NoFile /\ writes = 0
           /\ log = <<>>
    /\ (\A i \in 1..Len(log) : ~Yielded(i)) =>
           /\ file = NoFile /\ writes = 0
           /\ pc = "exited" => exit_status = 1
    /\ pc # "exited" => ENABLED MainNext

\* a run that ends with status 1 after a failed fetch and a sheet with no usable row
C1_Witness ==
    /\ pc = "exited" /\ exit_status = 1 /\ file = NoFile
    /\ Len(log) = 2
    /\ FetchFailed(1)
    /\ log[2].fetched /\ Len(log[2].data) >= 2 /\ ~Yielded(2)

\* C2: the output file is written at most once, and only after the loop has
\* handled every name of the discovered list, in order: each name that is not
\* blank fetched (and classified when rows came back), each blank name passed over;
\* the document written holds the headings of the whole list.
C2_WrittenOnceAfterAllSheets ==
    /\ writes <= 1
    /\ (writes = 0) = (file = NoFile)
    /\ writes = 1 =>
           /\ pc = "exited"
           /\ Len(log) = Len(sheet_names)
           /\ \A i \in 1..Len(sheet_names) :
                  /\ log[i].name = sheet_names[i]
                  /\ log[i].fetched = (strip(sheet_names[i]) # <<>>)
           /\ file.headings = headings

\* a document written after three sheets, the last of them the first to give a Section
C2_Witness ==
    /\ writes = 1
    /\ Len(sheet_names) = 3
    /\ ~Yielded(1) /\ ~Yielded(2) /\ Yielded(3)
    /\ Keys(file.headings) = <<sheet_names[3]>>

\* C3, every state: a failed fetch gives an empty row set and an empty Section; once
\* the run has ended, every name of the list that is not blank was fetched,
\* whichever fetches failed, and every sheet that gave a non-empty Section is a
\* heading of the document written.
C3_AfterFailures ==
    /\ \A i \in 1..Len(log) : FetchFailed(i) => ~Yielded(i)
    /\ (pc = "exited" /\ sheet_names # <<>>) =>
           /\ Len(log) = Len(sheet_names)
           /\ \A i \in 1..Len(log) :
                  /\ strip(sheet_names[i]) # <<>> => log[i].fetched
                  /\ Yielded(i) => /\ file # NoFile
                                   /\ HasKey(file.headings, log[i].name)

\* C3, every step: a step whose fetch fails adds no heading, changes no heading
\* and leaves the loop running at the next sheet.
C3_FailureStep ==
    (Len(log') = Len(log) + 1 /\ log'[Len(log')].fetched /\ log'[Len(log')].data = <<>>) =>
        /\ headings' = headings
        /\ successful_sheets' = successful_sheets
        /\ pc' = "loop"
        /\ idx' = idx + 1

\* C3: a fetch failure for one sheet is isolated: the sheet contributes an empty
\* row set and no heading, every later sheet is still fetched and processed, and a
\* later sheet with valid rows is in the document whichever earlier sheets failed.
C3_FetchFailureIsolated == []C3_AfterFailures /\ [][C3_FailureStep]_vars

\* two failed fetches, then a sheet with valid rows, which is in the document
C3_Witness ==
    /\ pc = "exited"
    /\ Len(log) = 3
    /\ FetchFailed(1) /\ FetchFailed(2) /\ Yielded(3)
    /\ Keys(file.headings) = <<log[3].name>>
    /\ GetItem(file.headings, log[3].name) = log[3].section

\* C4: at every point of a run, the keys of headings are the names of the sheets
\* handled so far whose Section is not empty, in the order those sheets were
\* processed (a name processed more than once stands where it first gave a
\* Section and holds the last Section it gave); no heading holds an empty Section,
\* and a sheet with no usable row is no key.
C4_HeadingsAreYieldedSheets ==
    /\ Keys(headings) = YieldedNames
    /\ \A i \in 1..Len(headings) : DOMAIN headings[i].val # {}
    /\ \A i \in 1..Len(headings) :
           \E j \in 1..Len(log) :
               /\ log[j].name = headings[i].key
               /\ Yielded(j)
               /\ log[j].section = headings[i].val
               /\ \A k \in (j + 1)..Len(log) : log[k].name = headings[i].key => ~Yielded(k)

\* two sheets, the first with one valid row and the second with a header and no
\* usable row: exactly one key
C4_Witness ==
    /\ pc = "exited"
    /\ Len(log) = 2
    /\ Yielded(1)
    /\ log[2].fetched /\ Len(log[2].data) >= 2 /\ ~Yielded(2)
    /\ log[1].name # log[2].name
    /\ Keys(headings) = <<log[1].name>>
    /\ Keys(file.headings) = <<log[1].name>>

\* C11: at every point of the sheet loop, for every discovered list, lists with
\* repeated names included, successful_sheets equals the number of keys of
\* headings, so the count of processed sheets reported at the end equals the
\* number of sections written.
C11_CounterEqualsHeadings ==
    /\ successful_sheets = Len(headings)
    /\ file # NoFile => successful_sheets = Len(file.headings)

====
